---- MODULE Spec2Model ----
(***************************************************************************)
(* ZeroTier::Address (node/Address.hpp): a 40-bit node address held in a   *)
(* uint64_t field _a.                                                      *)
(*                                                                         *)
(* A uint64_t is modelled as its 8 bytes, most significant first, because  *)
(* the model checker's integers are narrower than 40 bits.  Every shift in *)
(* Address.hpp is by a multiple of 8 and every mask is byte-aligned.       *)
(***************************************************************************)
EXTENDS Integers, Sequences, FiniteSets

VARIABLES _a, mem, sink, last

vars == <<_a, mem, sink, last>>

-----------------------------------------------------------------------------
(* Bounds of the model *)

\* size in bytes of the caller-provided buffer handed to setTo / copyTo
MemLen == 6

\* the byte sink is not appended to beyond this many bytes
MaxSinkLen == 10

\* the Address objects of the model
Objs == {1, 2}

-----------------------------------------------------------------------------
(* uint64_t arithmetic on 8-byte big-endian tuples *)

RECURSIVE BitAnd(_, _)
BitAnd(x, y) ==
    IF x = 0 \/ y = 0 THEN 0
    ELSE (x % 2) * (y % 2) + 2 * BitAnd(x \div 2, y \div 2)

RECURSIVE BitOr(_, _)
BitOr(x, y) ==
    IF x = 0 THEN y
    ELSE IF y = 0 THEN x
    ELSE (IF (x % 2) + (y % 2) > 0 THEN 1 ELSE 0) + 2 * BitOr(x \div 2, y \div 2)

U64 == [1..8 -> 0..255]

And64(x, y) == [i \in 1..8 |-> BitAnd(x[i], y[i])]

Or64(x, y) == [i \in 1..8 |-> BitOr(x[i], y[i])]

\* x >> n, n a multiple of 8 below 64
Shr64(x, n) == [i \in 1..8 |-> IF i - (n \div 8) >= 1 THEN x[i - (n \div 8)] ELSE 0]

\* x << n, n a multiple of 8 below 64
Shl64(x, n) == [i \in 1..8 |-> IF i + (n \div 8) <= 8 THEN x[i + (n \div 8)] ELSE 0]

\* (uint64_t)b for an unsigned char b
U64OfByte(b) == <<0, 0, 0, 0, 0, 0, 0, b>>

\* (unsigned char)x
UCharOf(x) == x[8]

\* unsigned x < y
Lt64(x, y) == \E i \in 1..8 : x[i] < y[i] /\ \A j \in 1..(i - 1) : x[j] = y[j]

Zero64 == <<0, 0, 0, 0, 0, 0, 0, 0>>

\* the literal 0xffffffffffULL
MASK40 == <<0, 0, 0, 255, 255, 255, 255, 255>>

\* the literal 0xff
BYTEMASK == <<0, 0, 0, 0, 0, 0, 0, 255>>

ZT_ADDRESS_LENGTH == 5

ZT_ADDRESS_RESERVED_PREFIX == 255

-----------------------------------------------------------------------------
(* Inputs *)

\* 64-bit integer arguments
Ints ==
    { Zero64,                                        \* 0
      <<0, 0, 0, 1, 2, 3, 4, 5>>,                    \* 0x0102030405
      <<0, 0, 0, 18, 0, 0, 0, 0>>,                   \* 0x1200000000
      <<0, 0, 0, 255, 0, 0, 0, 0>>,                  \* 0xFF00000000
      <<0, 0, 255, 0, 0, 0, 0, 0>>,                  \* 0xFF0000000000
      <<128, 0, 0, 1, 35, 69, 103, 137>>,            \* 0x8000000123456789
      <<255, 255, 255, 255, 255, 255, 255, 255>> }   \* 0xFFFFFFFFFFFFFFFF

\* contents a caller may have put in its buffer
PatByte(p, i) ==
    CASE p = 1 -> 0
      [] p = 2 -> i
      [] p = 3 -> <<255, 0, 0, 0, 0, 153>>[((i - 1) % 6) + 1]
      [] p = 4 -> <<18, 171, 205, 239, 0, 153>>[((i - 1) % 6) + 1]

Patterns == 1..4

\* declared lengths passed with the buffer: around the 5-byte threshold, and the whole buffer
Lens == {0, 4, 5, MemLen}

\* capacities of the text buffer handed to toString(buf,len)
StrLens == {4, 11, 16}

PatMem(p) == [i \in 1..MemLen |-> PatByte(p, i)]

-----------------------------------------------------------------------------
(* The member functions as functions of the field _a *)

\* a slip: the constructor masks to 32 bits
Address_int_mask32(a) == And64(a, <<0, 0, 0, 0, 255, 255, 255, 255>>)

\* a slip: the constructor stores its argument as it is
Address_int_nomask(a) == a

\* Address(uint64_t a) : _a(a & 0xffffffffffULL)
Address_int(a) == And64(a, MASK40)

\* a slip: the assignment stores its argument as it is
assign_int_nomask(a) == a

\* operator=(const uint64_t a)
assign_int(a) == And64(a, MASK40)

\* a slip: the length test is off by one
setTo_value_off(bits, len) ==
    IF len < ZT_ADDRESS_LENGTH - 1 THEN Zero64
    ELSE Or64(Or64(Or64(Or64(Shl64(U64OfByte(bits[1]), 32),
                             Shl64(U64OfByte(bits[2]), 24)),
                        Shl64(U64OfByte(bits[3]), 16)),
                   Shl64(U64OfByte(bits[4]), 8)),
              U64OfByte(bits[5]))

\* setTo(bits,len): the new value of _a
setTo_value(bits, len) ==
    IF len < ZT_ADDRESS_LENGTH THEN Zero64
    ELSE Or64(Or64(Or64(Or64(Shl64(U64OfByte(bits[1]), 32),
                             Shl64(U64OfByte(bits[2]), 24)),
                        Shl64(U64OfByte(bits[3]), 16)),
                   Shl64(U64OfByte(bits[4]), 8)),
              U64OfByte(bits[5]))

\* setTo(bits,len): the positions of bits that are dereferenced
setTo_reads(len) == IF len < ZT_ADDRESS_LENGTH THEN {} ELSE 1..5

\* a slip: least significant byte first
BytesOf_le(a) ==
    << UCharOf(And64(a, BYTEMASK)),
       UCharOf(And64(Shr64(a, 8), BYTEMASK)),
       UCharOf(And64(Shr64(a, 16), BYTEMASK)),
       UCharOf(And64(Shr64(a, 24), BYTEMASK)),
       UCharOf(And64(Shr64(a, 32), BYTEMASK)) >>

\* the five bytes copyTo and appendTo store
BytesOf(a) ==
    << UCharOf(And64(Shr64(a, 32), BYTEMASK)),
       UCharOf(And64(Shr64(a, 24), BYTEMASK)),
       UCharOf(And64(Shr64(a, 16), BYTEMASK)),
       UCharOf(And64(Shr64(a, 8), BYTEMASK)),
       UCharOf(And64(a, BYTEMASK)) >>

\* a slip: the rest of the declared length is cleared
copyTo_mem_clear(a, bits, len) ==
    IF len < ZT_ADDRESS_LENGTH THEN bits
    ELSE LET b == BytesOf(a)
         IN  [i \in 1..Len(bits) |-> IF i <= 5 THEN b[i] ELSE IF i <= len THEN 0 ELSE bits[i]]

\* copyTo(bits,len): the buffer afterwards
copyTo_mem(a, bits, len) ==
    IF len < ZT_ADDRESS_LENGTH THEN bits
    ELSE LET b == BytesOf(a)
         IN  [i \in 1..Len(bits) |-> IF i <= 5 THEN b[i] ELSE bits[i]]

toInt(a) == a

operator_bool(a) == a # Zero64

\* a slip: the null address is not tested
isReserved_prefix_only(a) == Shr64(a, 32) = U64OfByte(ZT_ADDRESS_RESERVED_PREFIX)

isReserved(a) == (a = Zero64) \/ (Shr64(a, 32) = U64OfByte(ZT_ADDRESS_RESERVED_PREFIX))

\* a slip: position 0 is the least significant byte
operator_index_le(a, i) == UCharOf(And64(Shr64(a, i * 8), BYTEMASK))

\* operator[](i), i in 0..4
operator_index(a, i) == UCharOf(And64(Shr64(a, 32 - (i * 8)), BYTEMASK))

\* operator==(const uint64_t &a) ... operator<=(const uint64_t &a)
operator_eq_int(a, v) == a = And64(v, MASK40)

operator_ne_int(a, v) == a # And64(v, MASK40)

operator_gt_int(a, v) == Lt64(And64(v, MASK40), a)

operator_lt_int(a, v) == Lt64(a, And64(v, MASK40))

\* a slip: the integer operand is not masked
operator_ge_int_nomask(a, v) == ~Lt64(a, v)

operator_ge_int(a, v) == ~Lt64(a, And64(v, MASK40))

operator_le_int(a, v) == ~Lt64(And64(v, MASK40), a)

\* operator==(const Address &a) ... operator<=(const Address &a)
operator_eq(a, b) == a = b

operator_ne(a, b) == a # b

operator_gt(a, b) == Lt64(b, a)

operator_lt(a, b) == Lt64(a, b)

operator_ge(a, b) == ~Lt64(a, b)

operator_le(a, b) == ~Lt64(b, a)

\* the six operators applied to the same operands
CompareInt(a, v) ==
    [eq |-> operator_eq_int(a, v), ne |-> operator_ne_int(a, v),
     gt |-> operator_gt_int(a, v), lt |-> operator_lt_int(a, v),
     ge |-> operator_ge_int(a, v), le |-> operator_le_int(a, v)]

CompareAddr(a, b) ==
    [eq |-> operator_eq(a, b), ne |-> operator_ne(a, b),
     gt |-> operator_gt(a, b), lt |-> operator_lt(a, b),
     ge |-> operator_ge(a, b), le |-> operator_le(a, b)]

\* the digits of the x conversion
HexChars == <<"0", "1", "2", "3", "4", "5", "6", "7", "8", "9", "a", "b", "c", "d", "e", "f">>

\* the 16 hexadecimal digits of a 64-bit value, most significant first
Nibbles(x) ==
    [k \in 1..16 |-> IF k % 2 = 1 THEN x[(k + 1) \div 2] \div 16 ELSE x[k \div 2] % 16]

RECURSIVE StripZeros(_)
StripZeros(s) ==
    IF s = <<>> THEN <<>>
    ELSE IF Head(s) = 0 THEN StripZeros(Tail(s))
    ELSE s

RECURSIVE ZeroPad(_, _)
ZeroPad(s, n) == IF Len(s) >= n THEN s ELSE ZeroPad(<<0>> \o s, n)

\* the conversion %.10llx: the digits of x, at least 10 of them
Format_10llx(x) ==
    LET digits == ZeroPad(StripZeros(Nibbles(x)), 10)
    IN  [k \in 1..Len(digits) |-> HexChars[digits[k] + 1]]

\* Utils::ztsnprintf(buf,len,"%.10llx",x): the characters in buf before the terminator
ztsnprintf_10llx(len, x) ==
    LET out == Format_10llx(x)
    IN  IF len = 0 THEN <<>>
        ELSE IF Len(out) <= len - 1 THEN out
        ELSE SubSeq(out, 1, len - 1)

\* a slip: the local buffer is too short
toString_buf8(a) == ztsnprintf_10llx(8, toInt(a))

\* toString(): char buf[16]
toString(a) == ztsnprintf_10llx(16, toInt(a))

\* toString(buf,len)
toString_buf(a, len) == ztsnprintf_10llx(len, toInt(a))

\* Buffer::appendField(l): the sink grown by l bytes; the new field starts at Len(b)+1
appendField(b, l) == b \o [i \in 1..l |-> 0]

\* appendTo(b): the sink afterwards
appendTo_sink(a, b) ==
    LET p == Len(b)
        grown == appendField(b, ZT_ADDRESS_LENGTH)
        field == BytesOf(a)
    IN  [i \in 1..Len(grown) |->
            IF i > p /\ i <= p + 5 THEN field[i - p] ELSE grown[i]]

-----------------------------------------------------------------------------
(* State *)

\* last: the latest call, its receiver, its arguments, whether the receiver was
\* non-null before it (recorded for setTo only) and what it returned
Rec(op, obj, val, len, was, ret) ==
    [op |-> op, obj |-> obj, val |-> val, len |-> len, was |-> was, ret |-> ret]

Init ==
    /\ _a = [o \in Objs |-> Zero64]       \* Address() : _a(0)
    /\ mem = PatMem(1)
    /\ sink = <<>>
    /\ last = Rec("Address()", 1, Zero64, 0, FALSE, 0)

\* Address() : _a(0)
ConstructDefault(o) ==
    /\ _a' = [_a EXCEPT ![o] = Zero64]
    /\ last' = Rec("Address()", o, Zero64, 0, FALSE, 0)
    /\ UNCHANGED <<mem, sink>>

\* Address(const Address &a) : _a(a._a)
ConstructCopy(o, s) ==
    /\ _a' = [_a EXCEPT ![o] = _a[s]]
    /\ last' = Rec("Address(Address)", o, _a[s], 0, FALSE, 0)
    /\ UNCHANGED <<mem, sink>>

\* Address(uint64_t a)
ConstructInt(o, v) ==
    /\ _a' = [_a EXCEPT ![o] = Address_int(v)]
    /\ last' = Rec("Address(uint64_t)", o, v, 0, FALSE, 0)
    /\ UNCHANGED <<mem, sink>>

\* Address(const void *bits,unsigned int len) { setTo(bits,len); }
ConstructBytes(o, len) ==
    /\ _a' = [_a EXCEPT ![o] = setTo_value(mem, len)]
    /\ last' = Rec("Address(bits,len)", o, Zero64, len, FALSE, setTo_reads(len))
    /\ UNCHANGED <<mem, sink>>

\* operator=(const Address &a)
AssignCopy(o, s) ==
    /\ _a' = [_a EXCEPT ![o] = _a[s]]
    /\ last' = Rec("operator=(Address)", o, _a[s], 0, FALSE, 0)
    /\ UNCHANGED <<mem, sink>>

\* operator=(const uint64_t a)
AssignInt(o, v) ==
    /\ _a' = [_a EXCEPT ![o] = assign_int(v)]
    /\ last' = Rec("operator=(uint64_t)", o, v, 0, FALSE, 0)
    /\ UNCHANGED <<mem, sink>>

\* setTo(bits,len)
SetTo(o, len) ==
    /\ _a' = [_a EXCEPT ![o] = setTo_value(mem, len)]
    /\ last' = Rec("setTo", o, Zero64, len, operator_bool(_a[o]), setTo_reads(len))
    /\ UNCHANGED <<mem, sink>>

\* zero()
Zero(o) ==
    /\ _a' = [_a EXCEPT ![o] = Zero64]
    /\ last' = Rec("zero", o, Zero64, 0, FALSE, 0)
    /\ UNCHANGED <<mem, sink>>

\* copyTo(bits,len)
CopyTo(o, len) ==
    /\ mem' = copyTo_mem(_a[o], mem, len)
    /\ last' = Rec("copyTo", o, Zero64, len, FALSE, 0)
    /\ UNCHANGED <<_a, sink>>

\* the caller fills its buffer
Fill(p) ==
    /\ mem' = PatMem(p)
    /\ last' = Rec("fill", 0, Zero64, 0, FALSE, 0)
    /\ UNCHANGED <<_a, sink>>

\* appendTo(b)
AppendTo(o) ==
    /\ Len(sink) + ZT_ADDRESS_LENGTH <= MaxSinkLen
    /\ sink' = appendTo_sink(_a[o], sink)
    /\ last' = Rec("appendTo", o, Zero64, 0, FALSE, 0)
    /\ UNCHANGED <<_a, mem>>

\* toInt()
ToInt(o) ==
    /\ last' = Rec("toInt", o, Zero64, 0, FALSE, toInt(_a[o]))
    /\ UNCHANGED <<_a, mem, sink>>

\* operator bool()
Bool(o) ==
    /\ last' = Rec("operator bool", o, Zero64, 0, FALSE, operator_bool(_a[o]))
    /\ UNCHANGED <<_a, mem, sink>>

\* isReserved()
IsReserved(o) ==
    /\ last' = Rec("isReserved", o, Zero64, 0, FALSE, isReserved(_a[o]))
    /\ UNCHANGED <<_a, mem, sink>>

\* operator[](i); the caller keeps i within 0..4
Index(o, i) ==
    /\ last' = Rec("operator[]", o, Zero64, i, FALSE, operator_index(_a[o], i))
    /\ UNCHANGED <<_a, mem, sink>>

\* a op v for the six operators taking a uint64_t
CmpInt(o, v) ==
    /\ last' = Rec("compare(uint64_t)", o, v, 0, FALSE, CompareInt(_a[o], v))
    /\ UNCHANGED <<_a, mem, sink>>

\* a op b for the six operators taking an Address
CmpAddr(o, s) ==
    /\ last' = Rec("compare(Address)", o, _a[s], 0, FALSE, CompareAddr(_a[o], _a[s]))
    /\ UNCHANGED <<_a, mem, sink>>

\* toString()
ToString(o) ==
    /\ last' = Rec("toString()", o, Zero64, 0, FALSE, toString(_a[o]))
    /\ UNCHANGED <<_a, mem, sink>>

\* toString(buf,len)
ToStringBuf(o, len) ==
    /\ last' = Rec("toString(buf,len)", o, Zero64, len, FALSE, toString_buf(_a[o], len))
    /\ UNCHANGED <<_a, mem, sink>>

\* construction, assignment and reset
MutateValue ==
    \/ \E o \in Objs : ConstructDefault(o)
    \/ \E o \in Objs, s \in Objs : ConstructCopy(o, s)
    \/ \E o \in Objs, v \in Ints : ConstructInt(o, v)
    \/ \E o \in Objs, s \in Objs : AssignCopy(o, s)
    \/ \E o \in Objs, v \in Ints : AssignInt(o, v)
    \/ \E o \in Objs : Zero(o)

\* parsing from and serializing to the caller's buffer
Codec ==
    \/ \E o \in Objs, len \in Lens : ConstructBytes(o, len)
    \/ \E o \in Objs, len \in Lens : SetTo(o, len)
    \/ \E o \in Objs, len \in Lens : CopyTo(o, len)
    \/ \E p \in Patterns : Fill(p)

Mutate == MutateValue \/ Codec

\* construction, assignment and the byte codec
Next == Mutate

Spec == Init /\ [][Next]_vars

\* ... with the queries of the value
NextQuery ==
    \/ Mutate
    \/ \E o \in Objs : ToInt(o)
    \/ \E o \in Objs : Bool(o)
    \/ \E o \in Objs : IsReserved(o)
    \/ \E o \in Objs, i \in 0..4 : Index(o, i)

SpecQuery == Init /\ [][NextQuery]_vars

\* ... with the relational operators
NextCmp ==
    \/ Mutate
    \/ \E o \in Objs, v \in Ints : CmpInt(o, v)
    \/ \E o \in Objs, s \in Objs : CmpAddr(o, s)

SpecCmp == Init /\ [][NextCmp]_vars

\* ... with the text rendering
NextText ==
    \/ Mutate
    \/ \E o \in Objs : ToString(o)
    \/ \E o \in Objs, len \in StrLens : ToStringBuf(o, len)

SpecText == Init /\ [][NextText]_vars

\* construction and assignment from values, with the byte sink
NextSink ==
    \/ MutateValue
    \/ \E o \in Objs : AppendTo(o)
    \/ \E o \in Objs, i \in 0..4 : Index(o, i)

SpecSink == Init /\ [][NextSink]_vars

-----------------------------------------------------------------------------
(* What the claims are stated in *)

\* v & 0xFFFFFFFFFF, bytewise: bits 40..63 cleared, the low five bytes kept
Low40(v) == [i \in 1..8 |-> IF i <= 3 THEN 0 ELSE v[i]]

\* the 40-bit number held in the low five bytes, as its upper 24 and lower 16 bits
Hi24(x) == x[4] * 65536 + x[5] * 256 + x[6]

Lo16(x) == x[7] * 256 + x[8]

NumLt(x, y) == Hi24(x) < Hi24(y) \/ (Hi24(x) = Hi24(y) /\ Lo16(x) < Lo16(y))

NumEq(x, y) == Hi24(x) = Hi24(y) /\ Lo16(x) = Lo16(y)

\* the six comparisons of two 40-bit numbers
NumCmp(x, y) ==
    [eq |-> NumEq(x, y), ne |-> ~NumEq(x, y),
     gt |-> NumLt(y, x), lt |-> NumLt(x, y),
     ge |-> NumLt(y, x) \/ NumEq(x, y), le |-> NumLt(x, y) \/ NumEq(x, y)]

\* six results that fit one total order
OneOrder(r) ==
    /\ (r.lt /\ ~r.eq /\ ~r.gt) \/ (~r.lt /\ r.eq /\ ~r.gt) \/ (~r.lt /\ ~r.eq /\ r.gt)
    /\ r.le = (r.lt \/ r.eq)
    /\ r.ge = (r.gt \/ r.eq)
    /\ r.ne = ~r.eq

LowerHexDigits == {"0", "1", "2", "3", "4", "5", "6", "7", "8", "9", "a", "b", "c", "d", "e", "f"}

HexValue(c) ==
    CASE c = "0" -> 0 [] c = "1" -> 1 [] c = "2" -> 2 [] c = "3" -> 3
      [] c = "4" -> 4 [] c = "5" -> 5 [] c = "6" -> 6 [] c = "7" -> 7
      [] c = "8" -> 8 [] c = "9" -> 9 [] c = "a" -> 10 [] c = "b" -> 11
      [] c = "c" -> 12 [] c = "d" -> 13 [] c = "e" -> 14 [] c = "f" -> 15

\* ten hexadecimal characters read as a 64-bit number
ParseHex10(str) ==
    [i \in 1..8 |-> IF i <= 3 THEN 0
                    ELSE 16 * HexValue(str[2 * (i - 3) - 1]) + HexValue(str[2 * (i - 3)])]

X0102030405 == <<0, 0, 0, 1, 2, 3, 4, 5>>

X0123456789 == <<0, 0, 0, 1, 35, 69, 103, 137>>

X1200000000 == <<0, 0, 0, 18, 0, 0, 0, 0>>

XFF00000000 == <<0, 0, 0, 255, 0, 0, 0, 0>>

XFF0000000000 == <<0, 0, 255, 0, 0, 0, 0, 0>>

IsParse(op) == op \in {"setTo", "Address(bits,len)"}

-----------------------------------------------------------------------------
(* The claims *)

\* C1: after any sequence of constructions, assignments, setTo and zero, with
\* any integer arguments, byte contents and lengths, bits 40..63 of the stored
\* value of every Address are clear.
C1_Masked == \A o \in Objs : \A i \in 1..3 : _a[o][i] = 0

\* an integer with bits above 39 set was assigned and left a non-null address
C1_Witness ==
    /\ last.op = "operator=(uint64_t)"
    /\ last.val[1] # 0
    /\ _a[last.obj] # Zero64

\* C2: serializing the address parsed from five bytes b into a 5-byte buffer
\* writes b, and parsing the five bytes an address serializes to gives an
\* address equal to it.
C2_RoundTrip ==
    /\ (IsParse(last.op) /\ last.len >= 5) =>
           \A p \in Patterns :
               copyTo_mem(_a[last.obj], SubSeq(PatMem(p), 1, 5), 5) = SubSeq(mem, 1, 5)
    /\ (last.op = "copyTo" /\ last.len >= 5) =>
           operator_eq(setTo_value(SubSeq(mem, 1, 5), 5), _a[last.obj])

\* an address that only parsing 12 ab cd ef 00 produces was serialized
C2_Witness ==
    /\ last.op = "copyTo"
    /\ last.len >= 5
    /\ _a[last.obj] = <<0, 0, 0, 18, 171, 205, 239, 0>>
    /\ SubSeq(mem, 1, 5) = <<18, 171, 205, 239, 0>>

\* C3: for every 64-bit v, toInt() of Address(v), and of any Address after
\* v was assigned to it, is v & 0xFFFFFFFFFF.
C3_IntMasked ==
    last.op \in {"Address(uint64_t)", "operator=(uint64_t)"} =>
        toInt(_a[last.obj]) = Low40(last.val)

\* 0x8000000123456789 was given to the constructor
C3_Witness ==
    /\ last.op = "Address(uint64_t)"
    /\ last.val = <<128, 0, 0, 1, 35, 69, 103, 137>>
    /\ toInt(_a[last.obj]) = X0123456789

\* C4: isReserved() is true exactly when the value is zero or its byte of bits
\* 32..39 is 0xff, and leaves the address as it was; a default-constructed
\* address has toInt() 0, is false as a boolean and is reserved.
C4_Reserved ==
    [][/\ (last'.op = "isReserved" /\ IsReserved(last'.obj)) =>
              /\ _a' = _a
              /\ last'.ret = ((\A i \in 1..8 : _a[last'.obj][i] = 0) \/ _a[last'.obj][4] = 255)
       /\ (last.op = "Address()" /\ last'.obj = last.obj) =>
              /\ (last'.op = "toInt" /\ ToInt(last.obj)) => last'.ret = Zero64
              /\ (last'.op = "operator bool" /\ Bool(last.obj)) => last'.ret = FALSE
              /\ (last'.op = "isReserved" /\ IsReserved(last.obj)) => last'.ret = TRUE]_vars

\* isReserved() answered true for a non-null address with top byte 0xff
C4_Witness ==
    /\ last.op = "isReserved"
    /\ last.ret = TRUE
    /\ _a[last.obj][4] = 255
    /\ _a[last.obj] # Zero64

\* C5 as stated: Address(0xFF0000000000) is reserved and its top byte is 0xFF;
\* Address(0x1200000000) is not reserved.
C5_Original ==
    last.op = "Address(uint64_t)" =>
        /\ last.val = XFF0000000000 =>
               isReserved(_a[last.obj]) /\ operator_index(_a[last.obj], 0) = 255
        /\ last.val = X1200000000 => ~isReserved(_a[last.obj])

\* C5 amended: Address(0xFF0000000000) is reserved because the 48-bit argument
\* masks to the null address, whose top byte is 0x00; Address(0xFF00000000) is
\* the reserved address with top byte 0xFF; Address(0x1200000000) is not
\* reserved.
C5_Amended ==
    last.op = "Address(uint64_t)" =>
        /\ last.val = XFF0000000000 =>
               /\ isReserved(_a[last.obj])
               /\ toInt(_a[last.obj]) = Zero64
               /\ operator_index(_a[last.obj], 0) = 0
        /\ last.val = XFF00000000 =>
               isReserved(_a[last.obj]) /\ operator_index(_a[last.obj], 0) = 255
        /\ last.val = X1200000000 =>
               ~isReserved(_a[last.obj]) /\ operator_index(_a[last.obj], 0) = 18

\* Address(0xFF0000000000) was constructed
C5_Witness ==
    /\ last.op = "Address(uint64_t)"
    /\ last.val = XFF0000000000
    /\ isReserved(_a[last.obj])

\* C6: parsing with a declared length below 5 gives the null address whatever
\* the bytes and whatever the address held before, and reads no byte.
C6_ShortParse ==
    (IsParse(last.op) /\ last.len < 5) =>
        /\ toInt(_a[last.obj]) = Zero64
        /\ operator_bool(_a[last.obj]) = FALSE
        /\ last.ret = {}

\* setTo with length 4 on a non-null address, the buffer holding non-zero bytes
C6_Witness ==
    /\ last.op = "setTo"
    /\ last.len = 4
    /\ last.was
    /\ mem[1] # 0 /\ mem[2] # 0

\* C7: copyTo with a length below 5 leaves the buffer as it was; with 5 or more
\* it stores the address in positions 0..4, most significant byte first, and
\* leaves the positions from 5 on as they were; the address keeps its value.
C7_CopyToFrame ==
    [][(last'.op = "copyTo" /\ CopyTo(last'.obj, last'.len)) =>
           /\ _a' = _a
           /\ Len(mem') = Len(mem)
           /\ last'.len < 5 => mem' = mem
           /\ last'.len >= 5 =>
                  /\ \A i \in 1..5 : mem'[i] = _a[last'.obj][3 + i]
                  /\ \A i \in 6..Len(mem) : mem'[i] = mem[i]]_vars

\* 0x0102030405 was stored over a whole buffer whose last byte stays 0x99
C7_Witness ==
    /\ last.op = "copyTo"
    /\ last.len = MemLen
    /\ _a[last.obj] = X0102030405
    /\ SubSeq(mem, 1, 5) = <<1, 2, 3, 4, 5>>
    /\ mem[6] = 153

\* C8: each relational operator gives the comparison of the 40-bit numbers, an
\* integer operand counting as its low 40 bits (a op v is a op Address(v)); so
\* exactly one of <, ==, > holds, <= is < or ==, >= is > or ==, != is not ==.
C8_Order ==
    /\ last.op = "compare(uint64_t)" =>
           /\ last.ret = NumCmp(_a[last.obj], Low40(last.val))
           /\ last.ret = CompareAddr(_a[last.obj], Address_int(last.val))
           /\ OneOrder(last.ret)
    /\ last.op = "compare(Address)" =>
           /\ last.ret = NumCmp(_a[last.obj], last.val)
           /\ OneOrder(last.ret)

\* an address compared equal to an integer that has bits above 39 set
C8_Witness ==
    /\ last.op = "compare(uint64_t)"
    /\ last.val[1] # 0
    /\ _a[last.obj] # Zero64
    /\ last.ret.eq

\* C9: toString() is ten lowercase hexadecimal digits, most significant first,
\* that read back as toInt(); 0 gives "0000000000", 0x0123456789 "0123456789".
C9_Hex ==
    last.op = "toString()" =>
        /\ Len(last.ret) = 10
        /\ \A k \in 1..Len(last.ret) : last.ret[k] \in LowerHexDigits
        /\ ParseHex10(last.ret) = toInt(_a[last.obj])
        /\ _a[last.obj] = Zero64 =>
               last.ret = <<"0", "0", "0", "0", "0", "0", "0", "0", "0", "0">>
        /\ _a[last.obj] = X0123456789 =>
               last.ret = <<"0", "1", "2", "3", "4", "5", "6", "7", "8", "9">>

\* an address with letters among its digits was rendered
C9_Witness ==
    /\ last.op = "toString()"
    /\ last.ret = <<"1", "2", "a", "b", "c", "d", "e", "f", "0", "0">>

\* C10: a[i] is the byte copyTo stores at position i of a 5-byte buffer and the
\* i-th byte appendTo appends; Address(0x0102030405)[0] is 1 and [4] is 5;
\* appendTo grows the sink by 5 bytes and leaves what it held as it was.
C10_Bytes ==
    [][/\ (last'.op = "appendTo" /\ AppendTo(last'.obj)) =>
              /\ Len(sink') = Len(sink) + 5
              /\ SubSeq(sink', 1, Len(sink)) = sink
              /\ \A i \in 0..4 :
                     sink'[Len(sink) + 1 + i] = operator_index(_a[last'.obj], i)
       /\ (last'.op = "operator[]" /\ Index(last'.obj, last'.len)) =>
              /\ last'.ret = copyTo_mem(_a[last'.obj], <<0, 0, 0, 0, 0>>, 5)[last'.len + 1]
              /\ (_a[last'.obj] = X0102030405 /\ last'.len = 0) => last'.ret = 1
              /\ (_a[last'.obj] = X0102030405 /\ last'.len = 4) => last'.ret = 5]_vars

\* a second, different address was appended after a first
C10_Witness ==
    /\ last.op = "appendTo"
    /\ Len(sink) = 10
    /\ SubSeq(sink, 1, 5) = <<1, 2, 3, 4, 5>>
    /\ SubSeq(sink, 6, 10) = <<255, 255, 255, 255, 255>>

====
